---- MODULE Spec2Model ----
(***************************************************************************)
(* Model of parcels/nemo_grid.py: the NEMOGrid class, its class-level      *)
(* particle list, construction (empty or from a <name>_U / <name>_V file   *)
(* pair) and write(), which emits the two NEMO-convention files.           *)
(*                                                                         *)
(* Floating-point values are modelled by integers.  Arrays are sequences   *)
(* (1-based: source index k is model index k+1); a 2-D array is a sequence *)
(* of rows.  The store of a programmatically populated grid keeps 1-D      *)
(* coordinate lines lon_u (x-1 values), lat_u (y), lon_v (x), lat_v (y-1)  *)
(* and velocity arrays U of shape (x-1, y) and V of shape (x, y-1), the    *)
(* shapes write() needs for its assignments to succeed.                    *)
(***************************************************************************)
EXTENDS Integers, Sequences, FiniteSets, TLC

\* ---- bounds of the model ------------------------------------------------
MaxX == 3
MaxY == 3
MaxDepth == 2
MaxTime == 2
MaxGrids == 2
MaxParticles == 2

Grids == 1..MaxGrids
ParticleIds == {"p", "q"}

\* ---- values -------------------------------------------------------------
\* IEEE NaN, recognised only through IsNaN (np.isnan)
NaN == -1
\* content of a cell of a file variable that was declared but never written
Fill == -2
\* size given to createDimension for an unlimited dimension (None)
Unlimited == -3
\* 2^24: above it not every integer is a 32-bit float
Two24 == 16777216
\* a value a 64-bit float holds and a 32-bit float does not
Big == Two24 + 1

IsNaN(v) == v = NaN

\* np.float32 element type of a file variable: round to nearest, ties to even
\* (exact on the modelled range |v| < 2^25)
Float32(v) ==
  IF v < Two24 THEN v
  ELSE IF v % 2 = 0 THEN v
  ELSE IF (v + 1) % 4 = 0 THEN v + 1 ELSE v - 1

\* np.float64 element type: every modelled value is kept
Float64(v) == v

Line32(line) == [i \in 1..Len(line) |-> Float32(line[i])]
Line64(line) == [i \in 1..Len(line) |-> Float64(line[i])]

\* ---- arrays -------------------------------------------------------------
\* an (nr, nc) array with the same value everywhere
Full(nr, nc, v) == [r \in 1..nr |-> [c \in 1..nc |-> v]]

NCols(M) == IF Len(M) = 0 THEN 0 ELSE Len(M[1])

\* M.shape == (nr, nc); with no rows the row length is not observable
ShapeIs(M, nr, nc) == Len(M) = nr /\ \A r \in 1..Len(M) : Len(M[r]) = nc

\* np.transpose of a 2-D array
TransposeNot(A) == A
Transpose(A) == [r \in 1..NCols(A) |-> [c \in 1..Len(A) |-> A[c][r]]]

Matrix32(M) == [r \in 1..Len(M) |-> Line32(M[r])]

\* var[r, :] = line for every r in range(nr)
BroadcastRowsFirstOnly(M, nr, line) ==
  [r \in 1..Len(M) |-> IF r <= nr /\ r = 1 THEN Line32(line) ELSE M[r]]
BroadcastRows(M, nr, line) ==
  [r \in 1..Len(M) |-> IF r <= nr THEN Line32(line) ELSE M[r]]

\* var[:, c] = line for every c in range(nc)
BroadcastCols(M, nc, line) ==
  [r \in 1..Len(M) |-> [c \in 1..Len(M[r]) |->
      IF c <= nc THEN Float32(line[r]) ELSE M[r][c]]]

\* A[np.isnan(A)] = 0.
SanitizeNone(A) == A
Sanitize(A) ==
  [r \in 1..Len(A) |-> [c \in 1..Len(A[r]) |-> IF IsNaN(A[r][c]) THEN 0 ELSE A[r][c]]]

Column0(M) == [r \in 1..Len(M) |-> M[r][1]]
Row0(M) == M[1]

\* ---- the interpolation library ------------------------------------------
\* RectBivariateSpline(xs, ys, z, kx=1, ky=1) raises unless both coordinate
\* vectors have at least two strictly increasing values and z has shape
\* (len(xs), len(ys))
Increasing(line) == \A i \in 1..(Len(line) - 1) : line[i] < line[i + 1]

SplineOK(xs, ys, z) ==
  /\ Len(xs) >= 2 /\ Len(ys) >= 2
  /\ Increasing(xs) /\ Increasing(ys)
  /\ ShapeIs(z, Len(xs), Len(ys))

\* index of the lattice interval a coordinate falls in
Cell(line, v) ==
  LET below == {i \in 1..(Len(line) - 1) : line[i] <= v}
  IN  IF below = {} THEN 1 ELSE CHOOSE i \in below : \A j \in below : j <= i

\* the degree-1 spline evaluated at (a, b): bilinear in the cell of (a, b)
Sample(sp, a, b) ==
  LET i == Cell(sp.xs, a)
      j == Cell(sp.ys, b)
      x0 == sp.xs[i]
      x1 == sp.xs[i + 1]
      y0 == sp.ys[j]
      y1 == sp.ys[j + 1]
  IN  ( sp.z[i][j] * (x1 - a) * (y1 - b) + sp.z[i + 1][j] * (a - x0) * (y1 - b)
      + sp.z[i][j + 1] * (x1 - a) * (b - y0) + sp.z[i + 1][j + 1] * (a - x0) * (b - y0) )
      \div ((x1 - x0) * (y1 - y0))

NoSpline == [xs |-> <<>>, ys |-> <<>>, z |-> <<>>]

\* ---- NEMOGrid instances -------------------------------------------------
VARIABLES
  grid,        \* grid[g]: the attributes of instance g
  _particles,  \* the class attribute NEMOGrid._particles
  added,       \* added[g]: the arguments of the add_particle calls made on g
  file,        \* file[f]: the file <name>_U / <name>_V
  pc,          \* the statement write() is about to run
  cur,         \* the file that statement works on
  failedAt     \* where write() raised, as <<file, statement>>

vars == <<grid, _particles, added, file, pc, cur, failedAt>>

StoreFields == {"depth", "time_counter", "lon_u", "lat_u", "lon_v", "lat_v", "U", "V"}

\* class-level defaults: every instance attribute resolves to them until set
ClassDefaults ==
  [alive |-> FALSE, fromFile |-> FALSE, x |-> 0, y |-> 0,
   depth |-> <<>>, time_counter |-> <<>>,
   lon_u |-> <<>>, lat_u |-> <<>>, lon_v |-> <<>>, lat_v |-> <<>>,
   U |-> <<>>, V |-> <<>>,
   absent |-> StoreFields,           \* the attributes that are None
   interp_u |-> NoSpline, interp_v |-> NoSpline]

\* a store populated by the caller before write()
NoCell == <<0, 0>>
NaNCells == {NoCell, <<1, 2>>, <<2, 1>>}
Defects == {"lon_u", "lat_u", "lon_v", "lat_v", "U", "V", "depth"}

Extra(defect, field) == IF defect = field THEN 1 ELSE 0
Offset(wide) == IF wide THEN Big ELSE 0

Velocity(nc, nr, base, nanAt, wide) ==
  [c \in 1..nc |-> [r \in 1..nr |->
     IF <<c, r>> = nanAt THEN NaN
     ELSE IF wide /\ <<c, r>> = <<1, 1>> THEN Big
     ELSE base + 10 * c + r]]

MkStore(x, y, nd, nt, nanAt, wide, defect) ==
  [ClassDefaults EXCEPT
     !.alive = TRUE, !.x = x, !.y = y,
     !.depth = [k \in 1..nd |-> 5 * (k - 1)],
     !.time_counter = [k \in 1..nt |-> Offset(wide) + 3600 * (k - 1)],
     !.lon_u = [i \in 1..(x - 1 + Extra(defect, "lon_u")) |-> Offset(wide) + 4 * i],
     !.lat_u = [j \in 1..(y + Extra(defect, "lat_u")) |-> Offset(wide) + 100 + 4 * j],
     !.lon_v = [i \in 1..(x + Extra(defect, "lon_v")) |-> Offset(wide) + 4 * i + 2],
     !.lat_v = [j \in 1..(y - 1 + Extra(defect, "lat_v")) |-> Offset(wide) + 102 + 4 * j],
     !.U = Velocity(x - 1 + Extra(defect, "U"), y, 1000, nanAt, wide),
     !.V = Velocity(x + Extra(defect, "V"), y - 1, 2000, nanAt, wide),
     !.absent = IF defect = "depth" THEN {"depth"} ELSE {}]

WellFormedStores ==
  {MkStore(x, y, nd, nt, nanAt, wide, "none") :
     x \in 1..MaxX, y \in 1..MaxY, nd \in 1..MaxDepth, nt \in 1..MaxTime,
     nanAt \in NaNCells, wide \in BOOLEAN}

DefectiveStores ==
  {MkStore(x, y, 1, 1, NoCell, FALSE, d) : x \in 1..MaxX, y \in 1..MaxY, d \in Defects}

\* ---- files --------------------------------------------------------------
Files == {"U", "V"}
EmptyFn == [n \in {} |-> 0]

NoFile ==
  [state |-> "absent", dims |-> EmptyFn, vars |-> {}, nrec |-> 0,
   nav_lon |-> <<>>, nav_lat |-> <<>>, depth |-> <<>>, time_counter |-> <<>>,
   vel |-> EmptyFn, attrs |-> EmptyFn]

\* Dataset(name, 'w'): a new, empty, open file replaces whatever was there
NewFile == [NoFile EXCEPT !.state = "open"]

DepthDim(f) == IF f = "U" THEN "depthu" ELSE "depthv"
VelName(f) == IF f = "U" THEN "vozocrtx" ELSE "vomecrty"

\* the x and y sizes write() declares for each file
XSizeFull(f, g) == g.x
XSize(f, g) == IF f = "U" THEN g.x - 1 ELSE g.x
YSize(f, g) == IF f = "U" THEN g.y ELSE g.y - 1

\* the store attributes write() puts into each file's variables
LonLine(f, g) == IF f = "U" THEN g.lon_u ELSE g.lon_v
LatLine(f, g) == IF f = "U" THEN g.lat_u ELSE g.lat_v
Field(f, g) == IF f = "U" THEN g.U ELSE g.V

\* the store attributes write() takes valid_min / valid_max from
LonBoundsOwn(f, g) == LonLine(f, g)
LonBounds(f, g) == g.lon_u
LatBounds(f, g) == g.lat_u

\* the (time_counter, depth) slots of the velocity variable
Slots(nrec, nd) == (1..nrec) \X (1..nd)

\* the velocity variable after the unlimited dimension grew to nrec records
Grow(F, nd, nrec) ==
  [s \in Slots(nrec, nd) |->
     IF s \in DOMAIN F.vel THEN F.vel[s] ELSE Full(F.dims.y, F.dims.x, Fill)]

\* ---- write(filename) ----------------------------------------------------
Writer == 1
Resting == {"idle", "done", "failed"}

Raise ==
  /\ pc' = "failed"
  /\ failedAt' = <<cur, pc>>

Goto(step) ==
  /\ pc' = step
  /\ UNCHANGED failedAt

\* the call itself: the path is resolved and the U file comes first
Write ==
  /\ pc = "idle"
  /\ grid[Writer].alive
  /\ pc' = "create"
  /\ cur' = "U"
  /\ UNCHANGED <<grid, _particles, added, file, failedAt>>

CreateFile ==
  /\ pc = "create"
  /\ file' = [file EXCEPT ![cur] = NewFile]
  /\ Goto("dims")
  /\ UNCHANGED <<grid, _particles, added, cur>>

\* createDimension x, y, depth, time_counter; self.depth.size raises on None
DeclareDims ==
  LET g == grid[Writer]
      xy == ("x" :> XSize(cur, g)) @@ ("y" :> YSize(cur, g))
  IN  /\ pc = "dims"
      /\ IF "depth" \in g.absent
         THEN /\ file' = [file EXCEPT ![cur].dims = xy]
              /\ Raise
         ELSE /\ file' = [file EXCEPT ![cur].dims =
                   xy @@ (DepthDim(cur) :> Len(g.depth)) @@ ("time_counter" :> Unlimited)]
              /\ Goto("vars")
      /\ UNCHANGED <<grid, _particles, added, cur>>

\* createVariable: every cell of a new variable is unwritten
DeclareVars ==
  LET F == file[cur]
  IN  /\ pc = "vars"
      /\ file' = [file EXCEPT ![cur] =
           [F EXCEPT !.vars = {"nav_lon", "nav_lat", DepthDim(cur), "time_counter", VelName(cur)},
                     !.nav_lon = Full(F.dims.y, F.dims.x, Fill),
                     !.nav_lat = Full(F.dims.y, F.dims.x, Fill),
                     !.depth = [k \in 1..F.dims[DepthDim(cur)] |-> Fill],
                     !.time_counter = <<>>,
                     !.nrec = 0,
                     !.vel = EmptyFn]]
      /\ Goto("nav_lon")
      /\ UNCHANGED <<grid, _particles, added, cur>>

\* valid_min / valid_max of a variable: line[0] and line[-1]
Bounds(name, line) ==
  ((name \o ".valid_min") :> line[1]) @@ ((name \o ".valid_max") :> line[Len(line)])

\* the row loop, then the two attributes; a row assignment raises when the
\* line is not as long as the row, line[0] raises on an empty line
WriteNavLon ==
  LET g == grid[Writer]
      F == file[cur]
      line == LonLine(cur, g)
      rows == YSize(cur, g)
      bnd == LonBounds(cur, g)
  IN  /\ pc = "nav_lon"
      /\ IF rows >= 1 /\ Len(line) # F.dims.x
         THEN /\ Raise
              /\ UNCHANGED file
         ELSE IF Len(bnd) = 0
         THEN /\ file' = [file EXCEPT ![cur].nav_lon = BroadcastRows(F.nav_lon, rows, line)]
              /\ Raise
         ELSE /\ file' = [file EXCEPT ![cur].nav_lon = BroadcastRows(F.nav_lon, rows, line),
                                      ![cur].attrs = Bounds("nav_lon", bnd) @@ F.attrs]
              /\ Goto("nav_lat")
      /\ UNCHANGED <<grid, _particles, added, cur>>

\* the column loop, then the two attributes
WriteNavLat ==
  LET g == grid[Writer]
      F == file[cur]
      line == LatLine(cur, g)
      cols == XSize(cur, g)
      bnd == LatBounds(cur, g)
  IN  /\ pc = "nav_lat"
      /\ IF cols >= 1 /\ Len(line) # F.dims.y
         THEN /\ Raise
              /\ UNCHANGED file
         ELSE IF Len(bnd) = 0
         THEN /\ file' = [file EXCEPT ![cur].nav_lat = BroadcastCols(F.nav_lat, cols, line)]
              /\ Raise
         ELSE /\ file' = [file EXCEPT ![cur].nav_lat = BroadcastCols(F.nav_lat, cols, line),
                                      ![cur].attrs = Bounds("nav_lat", bnd) @@ F.attrs]
              /\ Goto("depth")
      /\ UNCHANGED <<grid, _particles, added, cur>>

\* depthu[:] / depthv[:] = self.depth; the dimension was sized to it
WriteDepth ==
  /\ pc = "depth"
  /\ file' = [file EXCEPT ![cur].depth = Line32(grid[Writer].depth)]
  /\ Goto("time_counter")
  /\ UNCHANGED <<grid, _particles, added, cur>>

\* time_counter[:] = self.time_counter; the unlimited dimension grows to it
WriteTime ==
  LET F == file[cur]
      tc == grid[Writer].time_counter
  IN  /\ pc = "time_counter"
      /\ file' = [file EXCEPT ![cur].time_counter = Line64(tc),
                              ![cur].nrec = Len(tc),
                              ![cur].vel = Grow(F, F.dims[DepthDim(cur)], Len(tc))]
      /\ Goto("vel")
      /\ UNCHANGED <<grid, _particles, added, cur>>

\* var[0, 0, :, :] = np.transpose(field); raises unless the transposed field
\* has the shape (y, x) of the file
WriteVel ==
  LET F == file[cur]
      A == Field(cur, grid[Writer])
      nrec == IF F.nrec >= 1 THEN F.nrec ELSE 1
  IN  /\ pc = "vel"
      /\ IF ShapeIs(A, F.dims.x, F.dims.y)
         THEN /\ file' = [file EXCEPT
                   ![cur].nrec = nrec,
                   ![cur].vel = [Grow(F, F.dims[DepthDim(cur)], nrec)
                                   EXCEPT ![<<1, 1>>] = Matrix32(Transpose(A))]]
              /\ Goto("close")
         ELSE /\ Raise
              /\ UNCHANGED file
      /\ UNCHANGED <<grid, _particles, added, cur>>

ClosedNot(F) == F
Closed(F) == [F EXCEPT !.state = "closed"]

\* close(); after the U file the V file, after the V file write() returns
CloseFile ==
  /\ pc = "close"
  /\ file' = [file EXCEPT ![cur] = Closed(file[cur])]
  /\ IF cur = "U"
     THEN /\ cur' = "V"
          /\ Goto("create")
     ELSE /\ cur' = cur
          /\ Goto("done")
  /\ UNCHANGED <<grid, _particles, added>>

\* ---- construction -------------------------------------------------------
\* NEMOGrid(): nothing is assigned, every attribute is the class default
ConstructEmpty(g) ==
  /\ pc \in Resting
  /\ ~grid[g].alive
  /\ grid' = [grid EXCEPT ![g] = [ClassDefaults EXCEPT !.alive = TRUE]]
  /\ UNCHANGED <<_particles, added, file, pc, cur, failedAt>>

\* what __init__ reads from the two files
ReadLon(f) == file[f].nav_lon
ReadLat(f) == file[f].nav_lat
ReadVel(f) == file[f].vel[<<1, 1>>]

\* lat[:, 0] and lon[0, :] exist and the spline accepts them with the field
Fits(lat, lon, A) ==
  /\ Len(lat) >= 1 /\ NCols(lat) >= 1 /\ Len(lon) >= 1
  /\ SplineOK(Column0(lat), Row0(lon), A)

Spline(lat, lon, A) == [xs |-> Column0(lat), ys |-> Row0(lon), z |-> A]

\* NEMOGrid(filename): both files are opened for reading (a file that is
\* missing, or still held open by a write() that raised, gives no instance),
\* the arrays are taken, NaN is zeroed, and the two splines are fitted; when
\* a spline cannot be fitted __init__ raises and there is no instance
ConstructFromFile(g) ==
  LET U == Sanitize(ReadVel("U"))
      V == Sanitize(ReadVel("V"))
  IN  /\ pc \in Resting
      /\ ~grid[g].alive
      /\ \A f \in Files : file[f].state = "closed"
      /\ Fits(ReadLat("U"), ReadLon("U"), U)
      /\ Fits(ReadLat("V"), ReadLon("V"), V)
      /\ grid' = [grid EXCEPT ![g] =
           [ClassDefaults EXCEPT
              !.alive = TRUE, !.fromFile = TRUE,
              !.lon_u = ReadLon("U"), !.lat_u = ReadLat("U"),
              !.lon_v = ReadLon("V"), !.lat_v = ReadLat("V"),
              !.U = U, !.V = V,
              !.absent = {"depth", "time_counter"},
              !.interp_u = Spline(ReadLat("U"), ReadLon("U"), U),
              !.interp_v = Spline(ReadLat("V"), ReadLon("V"), V)]]
      /\ UNCHANGED <<_particles, added, file, pc, cur, failedAt>>

\* ---- particles ----------------------------------------------------------
\* self._particles: no instance ever assigns the attribute, so the lookup
\* always ends at the class attribute
Particles(g) == _particles

\* self._particles.append(p)
AddParticle(g, p) ==
  /\ pc \in Resting
  /\ grid[g].alive
  /\ Len(_particles) < MaxParticles
  /\ _particles' = Append(_particles, p)
  /\ added' = [added EXCEPT ![g] = Append(@, p)]
  /\ UNCHANGED <<grid, file, pc, cur, failedAt>>

\* ---- specifications -----------------------------------------------------
InitWith(stores) ==
  /\ \E s \in stores : grid = [g \in Grids |-> IF g = Writer THEN s ELSE ClassDefaults]
  /\ _particles = <<>>
  /\ added = [g \in Grids |-> <<>>]
  /\ file = [f \in Files |-> NoFile]
  /\ pc = "idle"
  /\ cur = "U"
  /\ failedAt = <<"U", "idle">>

Init == InitWith(WellFormedStores \cup DefectiveStores)

WriteStep ==
  \/ Write
  \/ CreateFile
  \/ DeclareDims
  \/ DeclareVars
  \/ WriteNavLon
  \/ WriteNavLat
  \/ WriteDepth
  \/ WriteTime
  \/ WriteVel
  \/ CloseFile

Construct ==
  \/ \E g \in Grids : ConstructEmpty(g)
  \/ \E g \in Grids : ConstructFromFile(g)

Next ==
  \/ WriteStep
  \/ Construct

\* the codec: a populated store is written, grids are constructed
Spec == Init /\ [][Next]_vars

\* the particle list: one readable store and one write() raises on
ParticleStores ==
  {MkStore(MaxX, MaxY, 1, 1, NoCell, FALSE, "none"),
   MkStore(MaxX, MaxY, 1, 1, NoCell, FALSE, "U")}

InitParticles == InitWith(ParticleStores)

NextParticles ==
  \/ Next
  \/ \E g \in Grids, p \in ParticleIds : AddParticle(g, p)

SpecParticles == InitParticles /\ [][NextParticles]_vars

\* ======================= properties ======================================
Store == grid[Writer]
FU == file["U"]
FV == file["V"]
Readers == {g \in Grids : grid[g].alive /\ grid[g].fromFile}

\* C1: the U file declares x with size store.x - 1 and y with size store.y,
\* the V file declares x with size store.x and y with size store.y - 1: from
\* the moment a file's dimensions are declared, and so for both files when
\* write() has completed.
C1_Stagger ==
  /\ "x" \in DOMAIN FU.dims => FU.dims.x = Store.x - 1 /\ FU.dims.y = Store.y
  /\ "x" \in DOMAIN FV.dims => FV.dims.x = Store.x /\ FV.dims.y = Store.y - 1
  /\ pc = "done" => "x" \in DOMAIN FU.dims /\ "x" \in DOMAIN FV.dims

\* a completed write of a store with a single row: the V file has y of size 0
C1_Witness == pc = "done" /\ Store.x = MaxX /\ Store.y = 1 /\ FV.dims.y = 0

\* C2: a grid constructed from the files a store was written to has depth,
\* time_counter, U, V and the lon/lat lines of that store.
C2_RoundTrip ==
  \A g \in Readers :
    /\ grid[g].absent = {}
    /\ grid[g].depth = Store.depth
    /\ grid[g].time_counter = Store.time_counter
    /\ grid[g].U = Store.U
    /\ grid[g].V = Store.V
    /\ Row0(grid[g].lon_u) = Store.lon_u
    /\ Column0(grid[g].lat_u) = Store.lat_u
    /\ Row0(grid[g].lon_v) = Store.lon_v
    /\ Column0(grid[g].lat_v) = Store.lat_v

\* C3: add_particle on one grid leaves the collection of every other grid
\* unchanged, and a newly constructed grid starts with an empty collection.
C3_OwnCollection ==
  [][ /\ \A a \in Grids, b \in Grids :
           (a # b /\ grid[b].alive /\ added'[a] # added[a])
             => Particles(b)' = Particles(b)
      /\ \A g \in Grids :
           (~grid[g].alive /\ grid'[g].alive) => Particles(g)' = <<>> ]_vars

\* the store's arrays disagree with one another or with the declared sizes
Mismatched(g) ==
  \/ Len(g.depth) # 1
  \/ Len(g.time_counter) # 1
  \/ Len(g.lon_u) # g.x - 1 \/ Len(g.lat_u) # g.y
  \/ Len(g.lon_v) # g.x \/ Len(g.lat_v) # g.y - 1
  \/ ~ShapeIs(g.U, g.x - 1, g.y)
  \/ ~ShapeIs(g.V, g.x, g.y - 1)

\* C4: write() on a store whose array shapes disagree ends in an error and
\* has then created or modified neither file (stated for the stores with
\* every array present and both staggered grids non-empty).
C4_NoPartialFile ==
  (/\ Mismatched(Store)
   /\ Store.absent = {} /\ Store.x >= 2 /\ Store.y >= 2
   /\ pc \in {"done", "failed"}) =>
    /\ pc = "failed"
    /\ FU.state = "absent"
    /\ FV.state = "absent"

\* every lattice point of a spline returns exactly what the file held there,
\* with 0 in the place of NaN
ExactAtNodes(sp, A) ==
  /\ ShapeIs(A, Len(sp.xs), Len(sp.ys))
  /\ \A i \in 1..Len(sp.xs), j \in 1..Len(sp.ys) :
       /\ ~IsNaN(sp.z[i][j])
       /\ Sample(sp, sp.xs[i], sp.ys[j]) = IF IsNaN(A[i][j]) THEN 0 ELSE A[i][j]

\* C5: after construct-from-file no NaN has reached either interpolator:
\* sampled at a lattice point it returns 0 where the file's [0,0,:,:] slice
\* held NaN and the file's value everywhere else.
C5_NoNaNInterpolated ==
  \A g \in Readers :
    /\ ExactAtNodes(grid[g].interp_u, ReadVel("U"))
    /\ ExactAtNodes(grid[g].interp_v, ReadVel("V"))

HasNaN(A) == \E r \in 1..Len(A) : \E c \in 1..Len(A[r]) : IsNaN(A[r][c])

\* a grid was constructed from files whose velocity slices both hold a NaN
C5_Witness == Readers # {} /\ HasNaN(ReadVel("U")) /\ HasNaN(ReadVel("V"))

\* every row of M is `row`, every column of N is `col`, nothing is unwritten
Broadcast(M, N, nr, nc, row, col) ==
  /\ ShapeIs(M, nr, nc) /\ ShapeIs(N, nr, nc)
  /\ \A r \in 1..nr : M[r] = row
  /\ \A c \in 1..nc : [r \in 1..nr |-> N[r][c]] = col
  /\ \A r \in 1..nr, c \in 1..nc : M[r][c] # Fill /\ N[r][c] # Fill

Transposed(F, A, nr, nc, conv(_)) ==
  /\ <<1, 1>> \in DOMAIN F.vel
  /\ ShapeIs(F.vel[<<1, 1>>], nr, nc)
  /\ \A r \in 1..nr, c \in 1..nc : F.vel[<<1, 1>>][r][c] = conv(A[c][r])
  /\ \A s \in DOMAIN F.vel \ {<<1, 1>>} : F.vel[s] = Full(nr, nc, Fill)

\* C7 as stated: vozocrtx[0,0,r,c] = store.U[c,r] and vomecrty[0,0,r,c] =
\* store.V[c,r]; no other time or depth index is written.
C7_TransposedExact ==
  pc = "done" =>
    /\ Transposed(FU, Store.U, Store.y, Store.x - 1, Float64)
    /\ Transposed(FV, Store.V, Store.y - 1, Store.x, Float64)

\* C7, amended: vozocrtx[0,0,r,c] is store.U[c,r] and vomecrty[0,0,r,c] is
\* store.V[c,r], each narrowed to the 32-bit float the variable is declared
\* with; no other time or depth index is written.
C7_Transposed32 ==
  pc = "done" =>
    /\ Transposed(FU, Store.U, Store.y, Store.x - 1, Float32)
    /\ Transposed(FV, Store.V, Store.y - 1, Store.x, Float32)

\* a completed write with several depth levels and time steps, so that the
\* velocity variables have slots other than [0,0]
C7_Witness ==
  /\ pc = "done" /\ Store.x = MaxX /\ Store.y = MaxY
  /\ Cardinality(DOMAIN FU.vel) > 1 /\ Cardinality(DOMAIN FV.vel) > 1

\* the four bounds attributes of a file are the ends of lon and lat
BoundsAre(F, lon, lat) ==
  /\ DOMAIN F.attrs = {"nav_lon.valid_min", "nav_lon.valid_max",
                       "nav_lat.valid_min", "nav_lat.valid_max"}
  /\ F.attrs["nav_lon.valid_min"] = lon[1]
  /\ F.attrs["nav_lon.valid_max"] = lon[Len(lon)]
  /\ F.attrs["nav_lat.valid_min"] = lat[1]
  /\ F.attrs["nav_lat.valid_max"] = lat[Len(lat)]

\* C8: after write() the valid_min / valid_max of nav_lon and nav_lat are, in
\* the V file as in the U file, the first / last values of lon_u and lat_u.
C8_BoundsFromU ==
  pc = "done" =>
    /\ BoundsAre(FU, Store.lon_u, Store.lat_u)
    /\ BoundsAre(FV, Store.lon_u, Store.lat_u)

\* a completed write whose V-stagger lines end elsewhere than the U-stagger's
C8_Witness ==
  /\ pc = "done"
  /\ Store.lon_v[1] # Store.lon_u[1]
  /\ Store.lon_v[Len(Store.lon_v)] # Store.lon_u[Len(Store.lon_u)]
  /\ Len(Store.lat_v) >= 1 /\ Store.lat_v[1] # Store.lat_u[1]

\* C9: the collection of a grid is exactly the arguments of the add_particle
\* calls made on it, in call order, duplicates kept.
C9_ExactlyTheAdded ==
  \A g \in Grids : grid[g].alive => Particles(g) = added[g]

\* the stages a file has passed
DimsDeclared(f) == DOMAIN file[f].dims = {"x", "y", DepthDim(f), "time_counter"}
VarsDeclared(f) == file[f].vars # {}
DataWritten(f) == file[f].attrs # EmptyFn \/ file[f].nrec > 0
Complete(f) ==
  /\ file[f].state = "closed"
  /\ DimsDeclared(f) /\ VarsDeclared(f)
  /\ DOMAIN file[f].attrs # {}
  /\ <<1, 1>> \in DOMAIN file[f].vel

\* C10: the files are produced in sequence: dimensions before variables
\* before data in each file, at most one file open at a time, no V file
\* before the U file is complete and closed, also when write() raises on V.
C10_Sequential ==
  /\ \A f \in Files :
       /\ VarsDeclared(f) => DimsDeclared(f)
       /\ DataWritten(f) => VarsDeclared(f)
       /\ file[f].state = "closed" => Complete(f)
  /\ ~(FU.state = "open" /\ FV.state = "open")
  /\ FV.state # "absent" => Complete("U")
  /\ (pc = "failed" /\ failedAt[1] = "V") => Complete("U")

\* write() raised while writing the data of the V file
C10_Witness ==
  /\ pc = "failed" /\ failedAt[1] = "V" /\ FV.state = "open" /\ DataWritten("V")
====
